---- MODULE Spec2Model ----
(***************************************************************************)
(* Image acquisition pipeline of razoraze123/Scrap.                        *)
(*                                                                         *)
(* download_images (src/interface_py/scraper_images.py) discovers image    *)
(* elements, resolves each one (download_helpers.handle_image), allocates  *)
(* a path (download_helpers.unique_path), fetches remote sources on a      *)
(* thread pool (download_helpers.download_binary) and optionally renames   *)
(* the files (rename_helpers.rename_with_alt).  The single-file build      *)
(* src/interface_py.py holds the same routine over a module-level          *)
(* _RESERVED_PATHS set.                                                    *)
(*                                                                         *)
(* A file name is a record [folder, base, ext]; the disk is a function     *)
(* from the existing paths to the element that wrote the content.          *)
(***************************************************************************)
EXTENDS Integers, Sequences, FiniteSets, TLC

\* ------------------------------------------------------------------ bounds
MaxElems == 3
MaxThreads == 2
MaxElemsTwo == 2
MaxElemsAlt == 2
MaxElemsOther == 1
MaxElemsSmall == 1
MaxElemsFlaky == 2
MaxElemsRepeat == 2
RaceThreads == 3
MaxCalls == 3
MaxIndex == 2
MaxImages == 2

Sessions == {1, 2}
NoPath == [folder |-> "", base |-> "", ext |-> ""]
NoOwner == <<0, 0>>

\* ----------------------------------------------------------- pure helpers
MkPath(folder, base, ext) == [folder |-> folder, base |-> base, ext |-> ext]

\* unique_path, line 46: folder / f"{base}_{counter}{ext}"
Candidate(folder, base, ext, counter) ==
    MkPath(folder, base \o "_" \o ToString(counter), ext)

\* unique_path, line 45: candidate.exists() or candidate in reserved
Taken(candidate, res, dsk) == candidate \in DOMAIN dsk \/ candidate \in res

RECURSIVE Probe(_, _, _, _, _, _, _)
Probe(folder, base, ext, candidate, counter, res, dsk) ==
    IF Taken(candidate, res, dsk)
    THEN Probe(folder, base, ext, Candidate(folder, base, ext, counter),
               counter + 1, res, dsk)
    ELSE candidate

\* unique_path that looks at the disk only
unique_path_DiskOnly(folder, base, ext, res, dsk) ==
    Probe(folder, base, ext, MkPath(folder, base, ext), 1, {}, dsk)

\* unique_path: the path returned; the caller adds it to reserved (line 48)
unique_path(folder, base, ext, res, dsk) ==
    Probe(folder, base, ext, MkPath(folder, base, ext), 1, res, dsk)

\* one call of unique_path: its arguments, what was taken, and its result
AllocEntry(folder, base, ext, res, dsk) ==
    [base |-> base, ext |-> ext, taken |-> res \cup DOMAIN dsk,
     path |-> unique_path(folder, base, ext, res, dsk)]

\* clean_filename works on a phrase given as a sequence of characters.
Lower(c) ==
    CASE c = "A" -> "a" [] c = "B" -> "b" [] c = "E" -> "e" [] OTHER -> c

\* NFD decomposition followed by encode("ascii", "ignore"); "e'" stands for
\* e with an acute accent, "a`" for a with a grave accent
AsciiFold(c) ==
    CASE c = "e'" -> "e" [] c = "a`" -> "a" [] c = "E'" -> "E" [] OTHER -> c

IsSpace(c) == c \in {" ", "\t"}
IsSafe(c) == c \in {"a", "b", "e", "0", "1", "_", "-"}

RECURSIVE CleanFrom(_, _, _)
CleanFrom(phrase, i, inSpace) ==
    IF i > Len(phrase) THEN ""
    ELSE LET c == Lower(AsciiFold(phrase[i])) IN
         IF IsSpace(c)
         THEN (IF inSpace THEN "" ELSE "_") \o CleanFrom(phrase, i + 1, TRUE)
         ELSE (IF IsSafe(c) THEN c ELSE "") \o CleanFrom(phrase, i + 1, FALSE)

clean_filename(phrase) == CleanFrom(phrase, 1, FALSE)

\* download_images, line 91: url.lower().startswith(("http://", "https://"))
LowerScheme(sch) ==
    CASE sch = "HTTP://" -> "http://" [] sch = "HTTPS://" -> "https://"
      [] sch = "FTP://" -> "ftp://" [] OTHER -> sch

\* a check that accepts every absolute URL
ValidUrl_AnyScheme(url) == url.scheme # ""

ValidUrl(url) == LowerScheme(url.scheme) \in {"http://", "https://"}

\* ------------------------------------------------------- element resolver
\* An attribute value is a sequence of sources: <<>> is an absent or empty
\* attribute, a longer sequence is a responsive candidate list.
NoUrl == [kind |-> "none", protoRel |-> FALSE, stem |-> "", size |-> "",
          ext |-> "", query |-> "", valid |-> FALSE]
DataSrc(ext, valid) ==
    [kind |-> "data", protoRel |-> FALSE, stem |-> "", size |-> "",
     ext |-> ext, query |-> "", valid |-> valid]
UrlSrc(protoRel, stem, size, ext, query) ==
    [kind |-> "url", protoRel |-> protoRel, stem |-> stem, size |-> size,
     ext |-> ext, query |-> query, valid |-> TRUE]
Elem(src, dataSrc, dataSrcset) ==
    [src |-> src, data_src |-> dataSrc, data_srcset |-> dataSrcset]

\* data-src read before src
FirstAttr_DataFirst(el) ==
    IF el.data_src # <<>> THEN el.data_src
    ELSE IF el.src # <<>> THEN el.src
    ELSE el.data_srcset

\* handle_image, lines 56-60: src or data-src or data-srcset
FirstAttr(el) ==
    IF el.src # <<>> THEN el.src
    ELSE IF el.data_src # <<>> THEN el.data_src
    ELSE el.data_srcset

\* handle_image, lines 64-66: candidates[-1]
ChosenSource(attr) == attr[Len(attr)]

\* handle_image, lines 78-79
WithScheme(u) == [u EXCEPT !.protoRel = FALSE]

\* handle_image, lines 81-82: basename without query, "-<digits>" removed
IsDigitSuffix(size) == size \in {"-800", "-400"}
\* a seed that keeps the size group
SeedBase_Raw(u) == u.stem \o u.size

SeedBase(u) == IF IsDigitSuffix(u.size) THEN u.stem ELSE u.stem \o u.size

\* an inline seed without the index
InlineBase_NoIndex(index) == "image_base64"

\* image_base64_<index>
InlineBase(index) == "image_base64_" \o ToString(index)

\* handle_image: [ok, path, url, res, dsk, alloc]; ok = FALSE is a raised
\* RuntimeError, alloc the unique_path calls made
handle_image(el, folder, index, owner, res, dsk) ==
    LET attr == FirstAttr(el) IN
    IF attr = <<>>
    THEN [ok |-> FALSE, path |-> NoPath, url |-> NoUrl, res |-> res, dsk |-> dsk,
          alloc |-> <<>>]
    ELSE
      LET src == ChosenSource(attr) IN
      IF src.kind = "data"
      THEN LET a == AllocEntry(folder, InlineBase(index), "." \o src.ext,
                                  res, dsk)
                target == a.path
           IN
           IF src.valid
           THEN [ok |-> TRUE, path |-> target, url |-> NoUrl,
                 res |-> res \cup {target},
                 dsk |-> (target :> owner) @@ dsk, alloc |-> <<a>>]
           ELSE [ok |-> FALSE, path |-> target, url |-> NoUrl,
                 res |-> res \cup {target}, dsk |-> dsk, alloc |-> <<a>>]
      ELSE LET a == AllocEntry(folder, SeedBase(src), src.ext, res, dsk)
               target == a.path
           IN
           [ok |-> TRUE, path |-> target, url |-> WithScheme(src),
            res |-> res \cup {target}, dsk |-> dsk, alloc |-> <<a>>]

\* ------------------------------------------------------- alt-text renamer
\* path.rename(target): the content moves, an existing target is replaced
MoveFile(dsk, from, to) ==
    IF from = to THEN dsk
    ELSE [p \in (DOMAIN dsk \ {from}) \cup {to} |->
             IF p = to THEN dsk[from] ELSE dsk[p]]

\* rename_with_alt, line 66: target != path and target.exists()
Collides(path, target, dsk) == target # path /\ target \in DOMAIN dsk

\* a renamer that warns at every file of a key without phrases
ShouldWarn_Always(key, warned) == TRUE

\* rename_with_alt, line 55: product_key not in warned
ShouldWarn(key, warned) == key \notin warned

\* a renamer that returns the target although the rename failed
OnRenameError_Target(path, target) == target

\* rename_with_alt, lines 70-72: except OSError, return path
OnRenameError(path, target) == path

\* rename_with_alt: [path, warned, res, dsk, alloc, logged, kind]; phrases
\* is sentences.get(key), choice the index drawn by random.choice, oserr
\* whether path.rename raises OSError, which it always does
\* (FileNotFoundError) when there is no file at path; logged tells whether
\* the missing-key warning was written, kind which return statement was
\* reached: line 61 ("nokey"), line 72 ("oserr") or line 73 ("renamed")
rename_with_alt(path, key, phrases, warned, res, dsk, choice, oserr) ==
    IF phrases = <<>>
    THEN [path |-> path, warned |-> warned \cup {key}, res |-> res, dsk |-> dsk,
          alloc |-> <<>>, logged |-> ShouldWarn(key, warned), kind |-> "nokey"]
    ELSE
      LET filename == clean_filename(phrases[choice])
          target == MkPath(path.folder, filename, path.ext)
          a == AllocEntry(path.folder, filename, path.ext, res, dsk)
          hit == Collides(path, target, dsk)
          final == IF hit THEN a.path ELSE target
          res2 == IF hit THEN res \cup {final} ELSE res
          alloc == IF hit THEN <<a>> ELSE <<>>
      IN IF oserr \/ path \notin DOMAIN dsk
         THEN [path |-> OnRenameError(path, final), warned |-> warned,
               res |-> res2, dsk |-> dsk, alloc |-> alloc,
               logged |-> FALSE, kind |-> "oserr"]
         ELSE [path |-> final, warned |-> warned, res |-> res2,
               dsk |-> MoveFile(dsk, path, final), alloc |-> alloc,
               logged |-> FALSE, kind |-> "renamed"]

\* ------------------------------------------------------------------ state
VARIABLES
    sess,       \* per download_images call: the locals of the call
    reserved,   \* the reserved-path sets, by owner (0: module-level set)
    disk,       \* existing files: path -> <<session, element>> that wrote it
    mkdirs,     \* folders created by _safe_folder
    altFile,    \* content of the alt-sentence JSON file
    altCache,   \* _ALT_SENTENCES_CACHE: path -> the mapping object stored
    altOpens,   \* per path, how many times the JSON file was opened
    active,     \* the sessions that run
    thr,        \* concurrent unique_path callers (allocator race)
    ldr,        \* callers of load_alt_sentences
    rsv,        \* one application of handle_image
    gui         \* ScraperImagesWorker.run: the locals the callbacks share

vars == <<sess, reserved, disk, mkdirs, altFile, altCache, altOpens, active,
          thr, ldr, rsv, gui>>

\* the paths an alt-sentence file is looked up at; a file exists at AltPath
\* only
AltPath == "alt.json"
OtherPath == "none.json"
AltPaths == {AltPath, OtherPath}
ProductName == "prod"
ParentDir(s) == IF s = 1 THEN "a" ELSE "b"

\* the phrases of the alt-sentence file
Phrase1 == <<"B", "e'", " ", "\t", "b", "!">>
Phrase2 == <<"A">>
NoSentences == <<>>
Sentences == (ProductName :> <<Phrase1, Phrase2>>)

\* the elements a page may hold
InlineElem == Elem(<<DataSrc("png", TRUE)>>, <<>>, <<>>)
BadInlineElem == Elem(<<DataSrc("png", FALSE)>>, <<>>, <<>>)
NoSrcElem == Elem(<<>>, <<>>, <<>>)
UrlElem == Elem(<<UrlSrc(FALSE, "a", "-800", ".png", "?x=1")>>, <<>>, <<>>)
ElemPool == {InlineElem, BadInlineElem, NoSrcElem, UrlElem}
RemotePool == {UrlElem}

\* what find_elements may return on a page of the given kind
PagePool(page) ==
    CASE page = "remote" -> RemotePool
      [] page = "pair" -> {InlineElem, UrlElem}
      [] OTHER -> ElemPool

SeqsUpTo(S, n) == UNION {[1..k -> S] : k \in 1..n}

Urls == {[scheme |-> "http://"], [scheme |-> "HTTPS://"],
         [scheme |-> "ftp://"], [scheme |-> ""]}

\* what download_images has not returned yet
NoResult == <<>>

IdleSession(url, useAlt, altPath, rset, pool, maxElems, flaky, cbRaises, parent) ==
    [pc |-> "idle", url |-> url, use_alt |-> useAlt, alt_json_path |-> altPath,
     rset |-> rset, page |-> pool, max_elems |-> maxElems, flaky_fs |-> flaky,
     parent_dir |-> parent, result |-> NoResult, renamed |-> <<>>,
     early |-> {}, alt_requested |-> useAlt,
     doneq |-> <<>>, nearly |-> 0, reordered |-> FALSE,
     warnings |-> 0, renames |-> {},
     cb_raises |-> cbRaises, driver |-> "none", err |-> "none", navigated |-> FALSE,
     folder |-> "", sentences |-> NoSentences, warned |-> {},
     elems |-> <<>>, total |-> 0, idx |-> 0,
     task |-> <<>>, path |-> <<>>, outcome |-> <<>>, yielded |-> {},
     downloaded |-> 0, skipped |-> 0, first_image |-> NoPath,
     calls |-> <<>>, allocs |-> <<>>, first_done |-> 0]

NoThreads == <<>>
NoCallers == <<>>
NoCall == [pc |-> "none"]
NoGui == [pc |-> "none"]

\* sentences.get(product_key)
PhraseList(sentences, key) ==
    IF key \in DOMAIN sentences THEN sentences[key] ELSE <<>>

\* rename_with_alt, line 52: path.parent.name.replace("_", " ")
ProductKey(folder) == ProductName

\* the content of the file at AltPath: absent, not JSON, a mapping
MissingFile == [state |-> "missing", data |-> NoSentences]
BadFile == [state |-> "malformed", data |-> Sentences]
GoodFile == [state |-> "ok", data |-> Sentences]
EmptyFile == [state |-> "ok", data |-> NoSentences]
NoPhrasesFile == [state |-> "ok", data |-> (ProductName :> <<>>)]
FileAt(path, file) == IF path = AltPath THEN file ELSE MissingFile

\* None, and a dict object: obj tells apart two dicts of equal content
None == [data |-> NoSentences, obj |-> 0]
MapObj(data, n) == [data |-> data, obj |-> n]

\* _ALT_SENTENCES_CACHE.get(path)
CacheGet(cache, path) == IF path \in DOMAIN cache THEN cache[path] ELSE None

\* a cache test by truth value: if cached
IsCached_Truthy(cached) == cached # None /\ cached.data # NoSentences

\* load_alt_sentences, line 28: cached is not None
IsCached(cached) == cached # None

\* a parser that returns whatever it could read
ParseFile_Lenient(f) == f.data

\* load_alt_sentences, lines 30-35: json.load(fh), {} on any exception
ParseFile(f) == IF f.state = "ok" THEN f.data ELSE NoSentences

\* load_alt_sentences: [map, cache, opens]; opens counts, per path, the
\* calls of path.open
load_alt_sentences(path, cache, file, opens) ==
    LET cached == CacheGet(cache, path) IN
    IF IsCached(cached)
    THEN [map |-> cached, cache |-> cache, opens |-> opens]
    ELSE LET n == opens[path] + 1
             data == MapObj(ParseFile(FileAt(path, file)), n)
         IN [map |-> data, cache |-> (path :> data) @@ cache,
             opens |-> [opens EXCEPT ![path] = n]]

\* _safe_folder: Path(base_dir) / safe_name
SafeFolder(parent, name) == parent \o "/" \o name

\* driver.quit() after the loops instead of in a finally clause
Finally_NoQuitOnError(sr, exc) ==
    [sr EXCEPT !.driver = IF exc = "none" THEN "closed" ELSE @,
               !.pc = IF exc = "none" THEN "returned" ELSE "raised",
               !.err = exc]

\* download_images, finally clause (lines 180-181): driver.quit()
Finally(sr, exc) ==
    [sr EXCEPT !.driver = "closed",
               !.pc = IF exc = "none" THEN "returned" ELSE "raised",
               !.err = exc]

OldFile == (MkPath(SafeFolder("a", ProductName), "a", ".png") :> NoOwner)

Config(url, useAlt, altPath, file, old, maxElems, flaky, cbRaises) ==
    [url |-> url, use_alt |-> useAlt, alt_json_path |-> altPath,
     file |-> file, old |-> old, max_elems |-> maxElems, flaky_fs |-> flaky,
     cb_raises |-> cbRaises]

Http == [scheme |-> "http://"]

\* the calls made: pages of up to MaxElems elements without renaming and of
\* up to MaxElemsAlt with renaming; shorter pages with renaming into a populated folder on a
\* file system where a rename may fail, with a progress callback that
\* raises, for the other URL forms and for the other ways of switching
\* renaming off; with renaming requested and no path given, a file that is
\* not JSON, or a path where no file is
Configs ==
    {Config(Http, FALSE, "", MissingFile, <<>>, MaxElems, FALSE, FALSE),
     Config(Http, TRUE, AltPath, GoodFile, <<>>, MaxElemsAlt, FALSE, FALSE),
     Config(Http, TRUE, AltPath, GoodFile, OldFile, MaxElemsFlaky, TRUE, FALSE),
     Config(Http, FALSE, "", MissingFile, <<>>, MaxElemsFlaky, FALSE, TRUE)}
    \cup {Config(u, FALSE, "", MissingFile, <<>>, MaxElemsSmall, FALSE, FALSE) :
             u \in Urls \ {Http}}
    \cup {Config(Http, TRUE, AltPath, MissingFile, OldFile, MaxElemsSmall,
                 FALSE, FALSE),
          Config(Http, TRUE, "", GoodFile, OldFile, MaxElemsSmall, FALSE, FALSE),
          Config(Http, FALSE, AltPath, GoodFile, OldFile, MaxElemsSmall,
                 FALSE, FALSE),
          Config(Http, TRUE, AltPath, EmptyFile, OldFile, MaxElemsSmall,
                 FALSE, FALSE)}
    \cup {Config(Http, TRUE, "", GoodFile, <<>>, MaxElemsFlaky, FALSE, FALSE),
          Config(Http, TRUE, AltPath, BadFile, <<>>, MaxElemsFlaky, FALSE, FALSE),
          Config(Http, TRUE, AltPath, NoPhrasesFile, <<>>, MaxElemsFlaky,
                 FALSE, FALSE),
          Config(Http, TRUE, OtherPath, GoodFile, <<>>, MaxElemsFlaky,
                 FALSE, FALSE)}

Init ==
    /\ active = {1}
    /\ \E c \in Configs :
          /\ sess = [s \in {1} |->
                        IdleSession(c.url, c.use_alt, c.alt_json_path, s,
                                    "any", c.max_elems, c.flaky_fs, c.cb_raises,
                                    ParentDir(s))]
          /\ disk = c.old
          /\ altFile = c.file
    /\ reserved = [r \in {0} \cup Sessions |-> {}]
    /\ mkdirs = {}
    /\ altCache = <<>>
    /\ altOpens = [p \in AltPaths |-> 0]
    /\ ldr = NoCallers
    /\ rsv = NoCall
    /\ gui = NoGui
    /\ thr = NoThreads

\* a reserved set that outlives the call
FreshReserved_Kept(old) == old

\* download_images, line 86: reserved_paths = set() (_RESERVED_PATHS.clear()
\* in the single-file build)
FreshReserved(old) == {}

\* download_images, lines 86-107: up to the try block
Call(s) ==
    LET sr == sess[s] IN
    /\ s \in active
    /\ sr.pc = "idle"
    /\ reserved' = [reserved EXCEPT ![sr.rset] = FreshReserved(@)]
    /\ IF ~ValidUrl(sr.url)
       THEN /\ sess' = [sess EXCEPT ![s] = [sr EXCEPT !.pc = "raised",
                                                      !.err = "ValueError"]]
            /\ UNCHANGED <<altCache, altOpens>>
       ELSE IF sr.use_alt /\ sr.alt_json_path # ""
       THEN LET ld == load_alt_sentences(sr.alt_json_path, altCache, altFile,
                                         altOpens)
            IN
            /\ sess' = [sess EXCEPT ![s] = [sr EXCEPT !.pc = "opened",
                                                      !.driver = "open",
                                                      !.sentences = ld.map.data]]
            /\ altCache' = ld.cache
            /\ altOpens' = ld.opens
       ELSE /\ sess' = [sess EXCEPT ![s] = [sr EXCEPT !.pc = "opened",
                                                      !.driver = "open",
                                                      !.use_alt = FALSE]]
            /\ UNCHANGED <<altCache, altOpens>>
    /\ UNCHANGED <<disk, mkdirs, altFile, active, thr, ldr, rsv, gui>>

\* driver.find_elements: the elements of the page loaded; the page "again"
\* is the page call 1 loaded
Pages(sr) ==
    IF sr.page = "again" THEN {sess[1].elems}
    ELSE SeqsUpTo(PagePool(sr.page), sr.max_elems)

\* download_images, lines 109-128: navigation, folder and element discovery
Navigate(s) ==
    LET sr == sess[s] IN
    /\ s \in active
    /\ sr.pc = "opened"
    /\ \/ \E exc \in {"WebDriverException", "TimeoutException", "OSError"} :
             /\ sess' = [sess EXCEPT ![s] =
                            Finally([sr EXCEPT !.navigated = TRUE], exc)]
             /\ UNCHANGED mkdirs
       \/ \E es \in Pages(sr) :
             LET folder == SafeFolder(sr.parent_dir, ProductName) IN
             /\ sess' = [sess EXCEPT ![s] =
                   [sr EXCEPT !.pc = "enum", !.navigated = TRUE,
                              !.folder = folder, !.elems = es,
                              !.total = Len(es), !.idx = 1,
                              !.task = [i \in 1..Len(es) |-> "none"],
                              !.path = [i \in 1..Len(es) |-> NoPath],
                              !.renamed = [i \in 1..Len(es) |-> 0],
                              !.outcome = [i \in 1..Len(es) |-> "none"]]]
             /\ mkdirs' = mkdirs \cup {folder}
    /\ UNCHANGED <<reserved, disk, altFile, altCache, altOpens, active,
                   thr, ldr, rsv, gui>>

\* an enumeration loop without its except clause
OnElementError_Abort(sr, i) ==
    [sr EXCEPT !.outcome[i] = "error", !.driver = "closed", !.pc = "raised",
               !.err = "RuntimeError"]

\* download_images, lines 160-161: except Exception in the enumeration loop
OnElementError(sr, i) ==
    [sr EXCEPT !.outcome[i] = "error", !.idx = i + 1]

\* first_image assigned on every success
FirstImage_Last(cur, path) == path

\* download_images, lines 147-148 and 171-172
FirstImage(cur, path) == IF cur = NoPath THEN path ELSE cur

\* download_images, lines 141-151: an inline element, already written; what
\* progress_callback raises here is caught by the except clause of line 160
CountInline(sr, i, path) ==
    [sr EXCEPT !.path[i] = path, !.outcome[i] = "downloaded",
               !.downloaded = @ + 1,
               !.first_image = FirstImage(@, path),
               !.calls = Append(@, i), !.idx = i + 1]

\* download_images, lines 152-159: executor.submit and futures[fut]
Submit(sr, i, path) ==
    [sr EXCEPT !.path[i] = path, !.task[i] = "queued", !.idx = i + 1]

\* download_images, lines 143 and 167: rename_with_alt is entered for
\* element i; complete tells whether the file at its path holds the whole
\* content of the element
NoteRename(sr, i, complete) ==
    [sr EXCEPT !.renamed[i] = @ + 1,
               !.early = IF complete THEN @ ELSE @ \cup {i}]

\* the file at path was written by element i of session s
\* the call of rename_with_alt for element i, entered with the path orig
\* and the files dsk: the warning it logged, the return it took, whether it
\* changed the files
NoteOutcome(sr, i, orig, dsk, r) ==
    [sr EXCEPT !.warnings = IF r.logged THEN @ + 1 ELSE @,
               !.renames = @ \cup {[elem |-> i, orig |-> orig, kind |-> r.kind,
                                    moved |-> r.dsk # dsk]}]

Holds(dsk, path, s, i) == path \in DOMAIN dsk /\ dsk[path] = <<s, i>>

LogAlloc(sr, allocated) == [sr EXCEPT !.allocs = @ \o allocated]

\* path.rename raises OSError only where a rename is attempted
RenameErrors(sr, phrases) ==
    IF phrases # <<>> /\ sr.flaky_fs THEN BOOLEAN ELSE {FALSE}

\* the first element whose content was completely written
FirstDone(cur, i) == IF cur = 0 THEN i ELSE cur

\* download_images, lines 131-161: one iteration of the enumeration loop.
\* The wait of lines 136-140 reads again the attributes handle_image has
\* just found non-empty and lets the iteration go on.
Enumerate(s) ==
    LET sr == sess[s]
        i == sr.idx
        res == reserved[sr.rset]
    IN
    /\ s \in active
    /\ sr.pc = "enum"
    /\ i <= sr.total
    /\ LET h == handle_image(sr.elems[i], sr.folder, i, <<s, i>>, res, disk)
           sr1 == LogAlloc(sr, h.alloc)
           sr2 == IF h.ok /\ h.url = NoUrl
                  THEN [sr1 EXCEPT !.first_done = FirstDone(@, i)] ELSE sr1
       IN
       IF ~h.ok
       THEN /\ sess' = [sess EXCEPT ![s] = OnElementError(sr2, i)]
            /\ reserved' = [reserved EXCEPT ![sr.rset] = h.res]
            /\ disk' = h.dsk
       ELSE IF h.url # NoUrl
       THEN /\ sess' = [sess EXCEPT ![s] = Submit(sr2, i, h.path)]
            /\ reserved' = [reserved EXCEPT ![sr.rset] = h.res]
            /\ disk' = h.dsk
       ELSE IF ~sr.use_alt
       THEN /\ sess' = [sess EXCEPT ![s] = CountInline(sr2, i, h.path)]
            /\ reserved' = [reserved EXCEPT ![sr.rset] = h.res]
            /\ disk' = h.dsk
       ELSE LET phrases == PhraseList(sr.sentences, ProductKey(sr.folder)) IN
            \E choice \in (IF phrases = <<>> THEN {1} ELSE DOMAIN phrases),
               oserr \in RenameErrors(sr, phrases) :
               LET r == rename_with_alt(h.path, ProductKey(sr.folder), phrases,
                                        sr.warned, h.res, h.dsk, choice, oserr)
                   sr3 == LogAlloc(
                              NoteRename(
                                  NoteOutcome([sr2 EXCEPT !.warned = r.warned],
                                              i, h.path, h.dsk, r), i,
                                  Holds(h.dsk, h.path, s, i)),
                              r.alloc)
               IN /\ sess' = [sess EXCEPT ![s] = CountInline(sr3, i, r.path)]
                  /\ reserved' = [reserved EXCEPT ![sr.rset] = r.res]
                  /\ disk' = r.dsk
    /\ UNCHANGED <<mkdirs, altFile, altCache, altOpens, active,
                   thr, ldr, rsv, gui>>

\* download_images, line 162: the enumeration loop is over
EndEnumerate(s) ==
    LET sr == sess[s] IN
    /\ s \in active
    /\ sr.pc = "enum"
    /\ sr.idx > sr.total
    /\ sess' = [sess EXCEPT ![s] = [sr EXCEPT !.pc = "drain",
                                              !.nearly = Len(sr.doneq)]]
    /\ UNCHANGED <<reserved, disk, mkdirs, altFile, altCache, altOpens, active,
                   thr, ldr, rsv, gui>>

\* ----------------------------------------------------------- pool workers
Running(sr) == {i \in DOMAIN sr.task : sr.task[i] \in {"running", "open"}}
Queued(sr) == {i \in DOMAIN sr.task : sr.task[i] = "queued"}

\* ThreadPoolExecutor(max_workers=max_threads): a free worker takes the
\* oldest queued call of download_binary
TaskStart(s) ==
    LET sr == sess[s] IN
    /\ s \in active
    /\ sr.pc \in {"enum", "drain", "unwind"}
    /\ Queued(sr) # {}
    /\ Cardinality(Running(sr)) < MaxThreads
    /\ LET i == CHOOSE j \in Queued(sr) : \A k \in Queued(sr) : j <= k IN
       sess' = [sess EXCEPT ![s] = [sr EXCEPT !.task[i] = "running"]]
    /\ UNCHANGED <<reserved, disk, mkdirs, altFile, altCache, altOpens, active,
                   thr, ldr, rsv, gui>>

\* download_binary, lines 21-23: the response arrived, path.open("wb")
TaskOpen(s, i) ==
    LET sr == sess[s] IN
    /\ s \in active
    /\ i \in DOMAIN sr.task
    /\ sr.task[i] = "running"
    /\ sess' = [sess EXCEPT ![s] = [sr EXCEPT !.task[i] = "open"]]
    /\ disk' = (sr.path[i] :> <<s, i>>) @@ disk
    /\ UNCHANGED <<reserved, mkdirs, altFile, altCache, altOpens, active,
                   thr, ldr, rsv, gui>>

\* a worker that does the accounting of its element itself
Fetched_Counts(sr, i) ==
    [sr EXCEPT !.task[i] = "done", !.first_done = FirstDone(@, i),
               !.doneq = Append(@, i), !.downloaded = @ + 1,
               !.first_image = FirstImage(@, sr.path[i])]

\* download_binary, lines 24-26, run by a pool worker: the last chunk is
\* written and the future finishes; the session's locals are not in reach
Fetched(sr, i) ==
    [sr EXCEPT !.task[i] = "done", !.first_done = FirstDone(@, i),
               !.doneq = Append(@, i)]

\* download_binary, lines 24-26: every chunk is written
TaskDone(s, i) ==
    LET sr == sess[s] IN
    /\ s \in active
    /\ i \in DOMAIN sr.task
    /\ sr.task[i] = "open"
    /\ sess' = [sess EXCEPT ![s] = Fetched(sr, i)]
    /\ UNCHANGED <<reserved, disk, mkdirs, altFile, altCache, altOpens, active,
                   thr, ldr, rsv, gui>>

\* download_binary, lines 27-28: RequestException, raised as RuntimeError
TaskFail(s, i) ==
    LET sr == sess[s] IN
    /\ s \in active
    /\ i \in DOMAIN sr.task
    /\ sr.task[i] \in {"running", "open"}
    /\ sess' = [sess EXCEPT ![s] = [sr EXCEPT !.task[i] = "failed",
                                              !.doneq = Append(@, i)]]
    /\ UNCHANGED <<reserved, disk, mkdirs, altFile, altCache, altOpens, active,
                   thr, ldr, rsv, gui>>

\* --------------------------------------------------------- completion loop
Submitted(sr) == {i \in DOMAIN sr.task : sr.task[i] # "none"}
Finished(sr) == {i \in DOMAIN sr.task : sr.task[i] \in {"done", "failed"}}

\* a loop over the futures in submission order
Yieldable_Submitted(sr) == Submitted(sr) \ sr.yielded

\* an iterator that yields any finished future
Yieldable_Unordered(sr) == Finished(sr) \ sr.yielded

\* download_images, line 162: as_completed(futures) first yields the futures
\* that had finished when the loop began, in the iteration order of a set,
\* then the others in the order they finish; doneq holds the finished
\* futures not yet yielded, oldest first, and the first nearly of them had
\* finished when the loop began
Yieldable(sr) ==
    IF sr.nearly > 0 THEN {sr.doneq[k] : k \in 1..sr.nearly}
    ELSE IF sr.doneq # <<>> THEN {Head(sr.doneq)} ELSE {}

\* as_completed yields future i: it leaves the finished futures kept
Yield(sr, i) ==
    [sr EXCEPT !.yielded = @ \cup {i},
               !.doneq = SelectSeq(@, LAMBDA j : j # i),
               !.nearly = IF @ > 0 THEN @ - 1 ELSE 0,
               !.reordered = @ \/ sr.doneq = <<>> \/ Head(sr.doneq) # i]

\* executor.shutdown(wait=False)
PoolIdle_NoWait(sr) == TRUE

\* download_images, line 130: ThreadPoolExecutor.__exit__ is
\* shutdown(wait=True), it returns when every submitted call has finished
PoolIdle(sr) == Submitted(sr) = Finished(sr)

\* a summary that carries the counters
Summary_WithCounts(sr) ==
    [folder |-> sr.folder, first_image |-> sr.first_image,
     downloaded |-> sr.downloaded, skipped |-> sr.skipped]

\* download_images, line 190: the value returned
Summary(sr) == [folder |-> sr.folder, first_image |-> sr.first_image]

\* download_images, lines 177-178: progress_callback is called outside the
\* try block, what it raises leaves the completion loop
Notify(sr, i) ==
    IF sr.cb_raises
    THEN [sr EXCEPT !.calls = Append(@, i), !.pc = "unwind",
                    !.err = "CallbackError"]
    ELSE [sr EXCEPT !.calls = Append(@, i)]

\* download_images, lines 173-178: a failed fetch
CountSkipped(sr, i) ==
    Notify([Yield(sr, i) EXCEPT !.outcome[i] = "skipped", !.skipped = @ + 1],
           i)

\* download_images, lines 165-178: a successful fetch
CountRemote(sr, i, path) ==
    Notify([Yield(sr, i) EXCEPT !.path[i] = path,
                                !.outcome[i] = "downloaded",
                                !.downloaded = @ + 1,
                                !.first_image = FirstImage(@, path)], i)

\* a completion loop that runs alongside the enumeration loop
Draining_Early(sr) == sr.pc \in {"enum", "drain"}

\* download_images, line 162: the completion loop follows the enumeration
\* loop in the same with block
Draining(sr) == sr.pc = "drain"

\* download_images, lines 162-178: one iteration over as_completed(futures)
Drain(s, i) ==
    LET sr == sess[s]
        res == reserved[sr.rset]
    IN
    /\ s \in active
    /\ Draining(sr)
    /\ i \in Yieldable(sr)
    /\ IF sr.task[i] = "failed"
       THEN /\ sess' = [sess EXCEPT ![s] = CountSkipped(sr, i)]
            /\ UNCHANGED <<reserved, disk>>
       ELSE IF ~sr.use_alt
       THEN /\ sess' = [sess EXCEPT ![s] = CountRemote(sr, i, sr.path[i])]
            /\ UNCHANGED <<reserved, disk>>
       ELSE LET phrases == PhraseList(sr.sentences, ProductKey(sr.folder)) IN
            \E choice \in (IF phrases = <<>> THEN {1} ELSE DOMAIN phrases),
               oserr \in RenameErrors(sr, phrases) :
               LET r == rename_with_alt(sr.path[i], ProductKey(sr.folder),
                                        phrases, sr.warned, res, disk,
                                        choice, oserr)
                   sr1 == LogAlloc(
                              NoteRename(
                                  NoteOutcome([sr EXCEPT !.warned = r.warned],
                                              i, sr.path[i], disk, r), i,
                                  /\ sr.task[i] = "done"
                                  /\ Holds(disk, sr.path[i], s, i)),
                              r.alloc)
               IN /\ sess' = [sess EXCEPT ![s] = CountRemote(sr1, i, r.path)]
                  /\ reserved' = [reserved EXCEPT ![sr.rset] = r.res]
                  /\ disk' = r.dsk
    /\ UNCHANGED <<mkdirs, altFile, altCache, altOpens, active,
                   thr, ldr, rsv, gui>>

\* download_images, lines 179-190: the pool is shut down, the driver quits
\* and the summary is returned
Return(s) ==
    LET sr == sess[s] IN
    /\ s \in active
    /\ sr.pc = "drain"
    /\ Submitted(sr) = sr.yielded
    /\ PoolIdle(sr)
    /\ sess' = [sess EXCEPT ![s] =
                   [Finally(sr, "none") EXCEPT !.result = Summary(sr)]]
    /\ UNCHANGED <<reserved, disk, mkdirs, altFile, altCache, altOpens, active,
                   thr, ldr, rsv, gui>>

\* download_images, lines 130 and 180-181: an exception leaves the with
\* block, ThreadPoolExecutor.__exit__ waits for every submitted call, the
\* driver quits and the exception reaches the caller
Unwind(s) ==
    LET sr == sess[s] IN
    /\ s \in active
    /\ sr.pc = "unwind"
    /\ PoolIdle(sr)
    /\ sess' = [sess EXCEPT ![s] = Finally(sr, sr.err)]
    /\ UNCHANGED <<reserved, disk, mkdirs, altFile, altCache, altOpens, active,
                   thr, ldr, rsv, gui>>

Next ==
    \/ \E s \in Sessions : Call(s)
    \/ \E s \in Sessions : Navigate(s)
    \/ \E s \in Sessions : Enumerate(s)
    \/ \E s \in Sessions : EndEnumerate(s)
    \/ \E s \in Sessions : TaskStart(s)
    \/ \E s \in Sessions, i \in 1..MaxElems : TaskOpen(s, i)
    \/ \E s \in Sessions, i \in 1..MaxElems : TaskDone(s, i)
    \/ \E s \in Sessions, i \in 1..MaxElems : TaskFail(s, i)
    \/ \E s \in Sessions, i \in 1..MaxElems : Drain(s, i)
    \/ \E s \in Sessions : Return(s)
    \/ \E s \in Sessions : Unwind(s)

Spec == Init /\ [][Next]_vars

\* ------------------------------------------------ the single-file build
\* src/interface_py.py: download_images clears the module-level
\* _RESERVED_PATHS (set 0) and _unique_path reads and extends it; its
\* ScraperImagesWorker runs one download_images call per URL on a pool.
\* Call 1 loads a page of up to MaxElemsTwo remote images, call 2 one of up
\* to MaxElemsOther.
InitMono ==
    /\ active = Sessions
    /\ sess = [s \in Sessions |->
                  IdleSession(Http, FALSE, "", 0, "remote",
                              IF s = 1 THEN MaxElemsTwo ELSE MaxElemsOther,
                              FALSE, FALSE, ParentDir(s))]
    /\ disk = <<>>
    /\ altFile = MissingFile
    /\ reserved = [r \in {0} \cup Sessions |-> {}]
    /\ mkdirs = {}
    /\ altCache = <<>>
    /\ altOpens = [p \in AltPaths |-> 0]
    /\ ldr = NoCallers
    /\ rsv = NoCall
    /\ gui = NoGui
    /\ thr = NoThreads

\* the progress callbacks of these calls do not raise
NextMono ==
    \/ \E s \in Sessions : Call(s)
    \/ \E s \in Sessions : Navigate(s)
    \/ \E s \in Sessions : Enumerate(s)
    \/ \E s \in Sessions : EndEnumerate(s)
    \/ \E s \in Sessions : TaskStart(s)
    \/ \E s \in Sessions, i \in 1..MaxElemsTwo : TaskOpen(s, i)
    \/ \E s \in Sessions, i \in 1..MaxElemsTwo : TaskDone(s, i)
    \/ \E s \in Sessions, i \in 1..MaxElemsTwo : TaskFail(s, i)
    \/ \E s \in Sessions, i \in 1..MaxElemsTwo : Drain(s, i)
    \/ \E s \in Sessions : Return(s)

SpecMono == InitMono /\ [][NextMono]_vars

\* ------------------------------------------------------- a repeated call
\* test_download_images_same_names_on_repeat: the caller runs download_images
\* without renaming, unlinks every file the call left, and runs it again on
\* the same page and parent directory; in the package every call has its own
\* reserved set, in the single-file build both use the module-level one.
InitRepeat ==
    /\ active = {1}
    /\ \E build \in {"package", "single-file"} :
          sess = [s \in Sessions |->
                     IdleSession(Http, FALSE, "",
                                 IF build = "package" THEN s ELSE 0,
                                 IF s = 1 THEN "pair" ELSE "again",
                                 MaxElemsRepeat, FALSE, FALSE, ParentDir(1))]
    /\ disk = <<>>
    /\ altFile = MissingFile
    /\ reserved = [r \in {0} \cup Sessions |-> {}]
    /\ mkdirs = {}
    /\ altCache = <<>>
    /\ altOpens = [p \in AltPaths |-> 0]
    /\ ldr = NoCallers
    /\ rsv = NoCall
    /\ gui = NoGui
    /\ thr = NoThreads

\* test_download_images_same_names_on_repeat, lines 201-204: p.unlink() for
\* every file of the folder, then the second call
RemoveFiles ==
    /\ active = {1}
    /\ sess[1].pc = "returned"
    /\ disk' = <<>>
    /\ active' = {1, 2}
    /\ UNCHANGED <<sess, reserved, mkdirs, altFile, altCache, altOpens, thr,
                   ldr, rsv, gui>>

NextRepeat ==
    \/ \E s \in Sessions : Call(s)
    \/ \E s \in Sessions : Navigate(s)
    \/ \E s \in Sessions : Enumerate(s)
    \/ \E s \in Sessions : EndEnumerate(s)
    \/ \E s \in Sessions : TaskStart(s)
    \/ \E s \in Sessions, i \in 1..MaxElemsRepeat : TaskOpen(s, i)
    \/ \E s \in Sessions, i \in 1..MaxElemsRepeat : TaskDone(s, i)
    \/ \E s \in Sessions, i \in 1..MaxElemsRepeat : TaskFail(s, i)
    \/ \E s \in Sessions, i \in 1..MaxElemsRepeat : Drain(s, i)
    \/ \E s \in Sessions : Return(s)
    \/ RemoveFiles

SpecRepeat == InitRepeat /\ [][NextRepeat]_vars

\* --------------------------------------------- concurrent unique_path calls
\* Callers of unique_path that share one folder and one reserved set; the
\* function holds no lock, so a caller may be preempted between the test of
\* line 45 and the insertion of line 48.
RaceFolder == "a/prod"
RaceSeeds == {"a", "b"}
RaceIds == 1..RaceThreads

InitRace ==
    /\ active = {}
    /\ sess = <<>>
    /\ disk \in {<<>>, OldFile}
    /\ altFile = MissingFile
    /\ reserved = [r \in {0} \cup Sessions |-> {}]
    /\ mkdirs = {}
    /\ altCache = <<>>
    /\ altOpens = [p \in AltPaths |-> 0]
    /\ ldr = NoCallers
    /\ rsv = NoCall
    /\ gui = NoGui
    /\ thr = [t \in RaceIds |->
                 [pc |-> "idle", base |-> "", candidate |-> NoPath,
                  counter |-> 0, seen |-> {}]]

\* unique_path, lines 42-44
RaceBegin(t) ==
    /\ t \in DOMAIN thr
    /\ thr[t].pc = "idle"
    /\ \E b \in RaceSeeds :
          thr' = [thr EXCEPT ![t] = [pc |-> "test", base |-> b,
                                     candidate |-> MkPath(RaceFolder, b, ".png"),
                                     counter |-> 1, seen |-> {}]]
    /\ UNCHANGED <<sess, reserved, disk, mkdirs, altFile, altCache, altOpens,
                   active, ldr, rsv, gui>>

\* unique_path, lines 45-47: one evaluation of the loop condition
RaceTest(t) ==
    /\ t \in DOMAIN thr
    /\ thr[t].pc = "test"
    /\ thr' = [thr EXCEPT ![t] =
          IF Taken(thr[t].candidate, reserved[0], disk)
          THEN [@ EXCEPT !.candidate = Candidate(RaceFolder, thr[t].base, ".png",
                                                 thr[t].counter),
                         !.counter = @ + 1]
          ELSE [@ EXCEPT !.pc = "add"]]
    /\ UNCHANGED <<sess, reserved, disk, mkdirs, altFile, altCache, altOpens,
                   active, ldr, rsv, gui>>

\* unique_path, lines 48-49: reserved.add(candidate); return candidate
RaceAdd(t) ==
    /\ t \in DOMAIN thr
    /\ thr[t].pc = "add"
    /\ thr' = [thr EXCEPT ![t] = [@ EXCEPT !.pc = "returned",
                                           !.seen = reserved[0]]]
    /\ reserved' = [reserved EXCEPT ![0] = @ \cup {thr[t].candidate}]
    /\ UNCHANGED <<sess, disk, mkdirs, altFile, altCache, altOpens,
                   active, ldr, rsv, gui>>

NextRace ==
    \/ \E t \in RaceIds : RaceBegin(t)
    \/ \E t \in RaceIds : RaceTest(t)
    \/ \E t \in RaceIds : RaceAdd(t)

SpecRace == InitRace /\ [][NextRace]_vars

\* ------------------------------------------- calls of load_alt_sentences
\* Callers of load_alt_sentences in one process: the download_images calls
\* that cli._run_images and ScraperImagesWorker.run submit to a pool.
LoaderIds == 1..MaxCalls
IdleLoader ==
    [pc |-> "idle", path |-> "", map |-> None, seq |-> 0, opened |-> FALSE,
     saw |-> ""]
Returned(p) == {t \in DOMAIN ldr : ldr[t].pc = "returned" /\ ldr[t].path = p}

InitLoad ==
    /\ active = {}
    /\ sess = <<>>
    /\ disk = <<>>
    /\ altFile \in {MissingFile, BadFile, GoodFile, EmptyFile}
    /\ reserved = [r \in {0} \cup Sessions |-> {}]
    /\ mkdirs = {}
    /\ altCache = <<>>
    /\ altOpens = [p \in AltPaths |-> 0]
    /\ thr = NoThreads
    /\ ldr = [t \in LoaderIds |-> IdleLoader]
    /\ rsv = NoCall
    /\ gui = NoGui

\* load_alt_sentences, lines 24-37: one call that runs from its first line
\* to its return with no other call in between; seq is its rank among the
\* calls made
LoadCall(t) ==
    /\ t \in DOMAIN ldr
    /\ ldr[t].pc = "idle"
    /\ \E p \in AltPaths :
          LET ld == load_alt_sentences(p, altCache, altFile, altOpens) IN
          /\ ldr' = [ldr EXCEPT ![t] =
                        [pc |-> "returned", path |-> p, map |-> ld.map,
                         seq |-> 1 + Cardinality({u \in DOMAIN ldr :
                                                    ldr[u].pc = "returned"}),
                         opened |-> ld.opens # altOpens,
                         saw |-> FileAt(p, altFile).state]]
          /\ altCache' = ld.cache
          /\ altOpens' = ld.opens
    /\ UNCHANGED <<sess, reserved, disk, mkdirs, altFile, active, thr, rsv, gui>>

NextCache == \E t \in LoaderIds : LoadCall(t)

SpecCache == InitLoad /\ [][NextCache]_vars

\* load_alt_sentences, line 30: the file opened belongs to the user, who
\* may create, repair or replace it between two calls
RewriteFile ==
    /\ \E f \in {MissingFile, BadFile, GoodFile, EmptyFile} \ {altFile} :
          altFile' = f
    /\ UNCHANGED <<sess, reserved, disk, mkdirs, altCache, altOpens, active,
                   thr, ldr, rsv, gui>>

NextStale ==
    \/ \E t \in LoaderIds : LoadCall(t)
    \/ RewriteFile

SpecStale == InitLoad /\ [][NextStale]_vars

\* The same calls made from concurrent threads: the function holds no lock,
\* so a caller may be preempted between the lookup of line 27, the read of
\* lines 31-32 and the store of line 36.
\* load_alt_sentences, lines 26-29
LoadGet(t) ==
    /\ t \in DOMAIN ldr
    /\ ldr[t].pc = "idle"
    /\ \E p \in AltPaths :
          LET cached == CacheGet(altCache, p) IN
          ldr' = [ldr EXCEPT ![t] =
                     IF IsCached(cached)
                     THEN [@ EXCEPT !.pc = "returned", !.path = p,
                                    !.map = cached]
                     ELSE [@ EXCEPT !.pc = "open", !.path = p]]
    /\ UNCHANGED <<sess, reserved, disk, mkdirs, altFile, altCache, altOpens,
                   active, thr, rsv, gui>>

\* load_alt_sentences, lines 30-35
LoadParse(t) ==
    /\ t \in DOMAIN ldr
    /\ ldr[t].pc = "open"
    /\ LET p == ldr[t].path
           n == altOpens[p] + 1
       IN /\ ldr' = [ldr EXCEPT ![t] =
                        [@ EXCEPT !.pc = "store", !.opened = TRUE,
                                  !.map = MapObj(ParseFile(FileAt(p, altFile)),
                                                 n)]]
          /\ altOpens' = [altOpens EXCEPT ![p] = n]
    /\ UNCHANGED <<sess, reserved, disk, mkdirs, altFile, altCache, active,
                   thr, rsv, gui>>

\* load_alt_sentences, lines 36-37
LoadStore(t) ==
    /\ t \in DOMAIN ldr
    /\ ldr[t].pc = "store"
    /\ altCache' = (ldr[t].path :> ldr[t].map) @@ altCache
    /\ ldr' = [ldr EXCEPT ![t] = [@ EXCEPT !.pc = "returned"]]
    /\ UNCHANGED <<sess, reserved, disk, mkdirs, altFile, altOpens, active,
                   thr, rsv, gui>>

NextLoadRace ==
    \/ \E t \in LoaderIds : LoadGet(t)
    \/ \E t \in LoaderIds : LoadParse(t)
    \/ \E t \in LoaderIds : LoadStore(t)

SpecLoadRace == InitLoad /\ [][NextLoadRace]_vars

\* ------------------------------------------------ calls of handle_image
\* An attribute value as the browser gives it: a sequence of candidates, each
\* a sequence of tokens.  handle_image cuts the text at "?", takes the part
\* after the last "/" and removes "-<digits>" before the extension.
FirstAt(t, c) ==
    IF \E i \in DOMAIN t : t[i] = c
    THEN CHOOSE i \in DOMAIN t : t[i] = c /\ \A j \in 1..(i - 1) : t[j] # c
    ELSE Len(t) + 1
LastAt(t, c) ==
    IF \E i \in DOMAIN t : t[i] = c
    THEN CHOOSE i \in DOMAIN t : t[i] = c /\ \A j \in (i + 1)..Len(t) : t[j] # c
    ELSE 0

RECURSIVE Join(_)
Join(t) == IF t = <<>> THEN "" ELSE Head(t) \o Join(Tail(t))

\* handle_image, line 81: src.split("?")[0], and what follows it
BeforeQuery(t) == SubSeq(t, 1, FirstAt(t, "?") - 1)
QueryOf(t) == SubSeq(t, FirstAt(t, "?"), Len(t))

\* handle_image, line 81: os.path.basename
Basename(t) == SubSeq(t, LastAt(t, "/") + 1, Len(t))

\* \w+
IsWord(tok) == tok \notin {".", "-", "/", "?", "//", "https:", "=", ""}

\* handle_image, line 82 and unique_path, line 42: the extension \.\w+$ of
\* a name, the "-<token>" group directly before it, and the rest
SplitName(name) ==
    LET n == Len(name)
        hasExt == n >= 3 /\ name[n - 1] = "." /\ IsWord(name[n])
        body == IF hasExt THEN SubSeq(name, 1, n - 2) ELSE name
        m == Len(body)
        hasSize == hasExt /\ m >= 2 /\ body[m - 1] = "-" /\ IsWord(body[m])
    IN [stem |-> Join(IF hasSize THEN SubSeq(body, 1, m - 2) ELSE body),
        size |-> IF hasSize THEN "-" \o body[m] ELSE "",
        ext |-> IF hasExt THEN "." \o name[n] ELSE ""]

\* save_base64, lines 33-36: base64.b64decode raises binascii.Error on
\* "abc" (incorrect padding)
Decodable(payload) == payload = "aGk="

\* handle_image, lines 70-82: the source a candidate text denotes
ReadSrc(t) ==
    IF t[1] = "data:image"
    THEN DataSrc(t[3], Decodable(t[5]))
    ELSE LET nm == SplitName(Basename(BeforeQuery(t))) IN
         UrlSrc(t[1] = "//", nm.stem, nm.size, nm.ext, Join(QueryOf(t)))
ReadAttr(a) == [k \in DOMAIN a |-> ReadSrc(a[k])]
ReadElem(e) ==
    Elem(ReadAttr(e.src), ReadAttr(e.data_src), ReadAttr(e.data_srcset))

TestPng == <<"https:", "//", "h", "/", "img", "/", "test", ".", "png",
             "?", "x", "=", "1">>
PhotoJpg == <<"https:", "//", "h", "/", "photo", "-", "800", ".", "jpg">>
BigPng == <<"//", "h", "/", "a", "-", "big", ".", "png",
            "?", "v", "=", "/", "b", "-", "400", ".", "gif">>
NoExt == <<"https:", "//", "h", "/", "a", "-", "800", "/", "b", "-", "400">>
InlinePng == <<"data:image", "/", "png", ";base64,", "aGk=">>
InlineBad == <<"data:image", "/", "jpeg", ";base64,", "abc">>

\* attribute values: absent or empty, one candidate, a srcset list
AttrTexts ==
    {<<>>, <<TestPng>>, <<PhotoJpg>>, <<BigPng>>, <<NoExt>>, <<InlinePng>>,
     <<InlineBad>>, <<PhotoJpg, TestPng>>}
ResolveFolder == "a/prod"
OldFiles ==
    [p \in {MkPath(ResolveFolder, "photo", ".jpg"),
            MkPath(ResolveFolder, "test", ".png"),
            MkPath(ResolveFolder, "image_base64_1", ".png")} |-> NoOwner]
OldReserved ==
    {MkPath(ResolveFolder, "photo", ".jpg"),
     MkPath(ResolveFolder, "photo_1", ".jpg"),
     MkPath(ResolveFolder, "a-big", ".png")}

InitResolve ==
    /\ active = {}
    /\ sess = <<>>
    /\ disk \in {<<>>, OldFiles}
    /\ altFile = MissingFile
    /\ \E r \in {{}, OldReserved} :
          reserved = [k \in {0} \cup Sessions |-> IF k = 1 THEN r ELSE {}]
    /\ mkdirs = {ResolveFolder}
    /\ altCache = <<>>
    /\ altOpens = [p \in AltPaths |-> 0]
    /\ thr = NoThreads
    /\ ldr = NoCallers
    /\ gui = NoGui
    /\ \E a, b, c \in AttrTexts, n \in 1..MaxIndex :
          rsv = [pc |-> "ready", el |-> Elem(a, b, c), index |-> n,
                 res0 |-> reserved[1], dsk0 |-> disk,
                 out |-> [ok |-> FALSE, path |-> NoPath, url |-> NoUrl]]

\* download_images, line 133: one call of handle_image
Resolve ==
    /\ rsv.pc = "ready"
    /\ LET h == handle_image(ReadElem(rsv.el), ResolveFolder, rsv.index,
                             <<1, rsv.index>>, reserved[1], disk)
       IN /\ rsv' = [rsv EXCEPT !.pc = "done",
                                !.out = [ok |-> h.ok, path |-> h.path,
                                         url |-> h.url]]
          /\ reserved' = [reserved EXCEPT ![1] = h.res]
          /\ disk' = h.dsk
    /\ UNCHANGED <<sess, mkdirs, altFile, altCache, altOpens, active, thr, ldr, gui>>

NextResolve == Resolve

SpecResolve == InitResolve /\ [][NextResolve]_vars

\* ------------------------------------------------- GUI progress callbacks
\* ScraperImagesWorker.run (gui/workers.py) runs one download_images call
\* per URL in a pool of max_jobs threads and gives each its own callback
\* from make_cb(). A callback is called by the thread of its session with
\* the session's element count t, at most once per element.
\* make_cb, line 107, and the callbacks made so far by a session of t
\* elements
NewCb(t) == [pc |-> "out", first |-> TRUE, t |-> t, made |-> 0, tmp |-> 0]

\* one emission of the progress signal, by the callback of session who
Emission(done, total, who) == [done |-> done, total |-> total, who |-> who]

\* run, lines 102-119: images_done = 0, total_images = 0, a free lock, and
\* progress.emit(0, 0)
InitGui ==
    /\ active = {}
    /\ sess = <<>>
    /\ disk = <<>>
    /\ altFile = MissingFile
    /\ reserved = [k \in {0} \cup Sessions |-> {}]
    /\ mkdirs = {}
    /\ altCache = <<>>
    /\ altOpens = [p \in AltPaths |-> 0]
    /\ thr = NoThreads
    /\ ldr = NoCallers
    /\ rsv = NoCall
    /\ \E ts \in [Sessions -> 1..MaxImages] :
          gui = [images_done |-> 0, total_images |-> 0, lock |-> 0,
                 emitted |-> <<Emission(0, 0, 0)>>,
                 cb |-> [s \in Sessions |-> NewCb(ts[s])]]

\* callbacks that do not take the lock
LockFree_Always(lock) == TRUE

\* cb, line 111: with lock
LockFree(lock) == lock = 0

\* cb, line 111: the session's thread calls its callback and acquires the
\* lock
CbEnter(s) ==
    /\ gui.cb[s].pc = "out"
    /\ gui.cb[s].made < gui.cb[s].t
    /\ LockFree(gui.lock)
    /\ gui' = [gui EXCEPT !.lock = s, !.cb[s].pc = "first"]
    /\ UNCHANGED <<sess, reserved, disk, mkdirs, altFile, altCache, altOpens,
                   active, thr, ldr, rsv>>

\* cb, lines 112-114: if first: total_images += t; first = False
CbFirst(s) ==
    /\ gui.cb[s].pc = "first"
    /\ gui' = [gui EXCEPT !.total_images =
                              IF gui.cb[s].first THEN @ + gui.cb[s].t ELSE @,
                          !.cb[s].first = FALSE,
                          !.cb[s].pc = "load"]
    /\ UNCHANGED <<sess, reserved, disk, mkdirs, altFile, altCache, altOpens,
                   active, thr, ldr, rsv>>

\* cb, line 115: images_done += 1, the read
CbLoad(s) ==
    /\ gui.cb[s].pc = "load"
    /\ gui' = [gui EXCEPT !.cb[s].tmp = gui.images_done,
                          !.cb[s].pc = "store"]
    /\ UNCHANGED <<sess, reserved, disk, mkdirs, altFile, altCache, altOpens,
                   active, thr, ldr, rsv>>

\* cb, line 115: images_done += 1, the write
CbStore(s) ==
    /\ gui.cb[s].pc = "store"
    /\ gui' = [gui EXCEPT !.images_done = gui.cb[s].tmp + 1,
                          !.cb[s].pc = "emit"]
    /\ UNCHANGED <<sess, reserved, disk, mkdirs, altFile, altCache, altOpens,
                   active, thr, ldr, rsv>>

\* cb, line 116: self.progress.emit(images_done, total_images)
CbEmit(s) ==
    /\ gui.cb[s].pc = "emit"
    /\ gui' = [gui EXCEPT !.emitted =
                              Append(@, Emission(gui.images_done,
                                                 gui.total_images, s)),
                          !.cb[s].pc = "exit"]
    /\ UNCHANGED <<sess, reserved, disk, mkdirs, altFile, altCache, altOpens,
                   active, thr, ldr, rsv>>

\* cb, line 111: the with block is left, the lock released
CbExit(s) ==
    /\ gui.cb[s].pc = "exit"
    /\ gui' = [gui EXCEPT !.lock = 0, !.cb[s].pc = "out",
                          !.cb[s].made = @ + 1]
    /\ UNCHANGED <<sess, reserved, disk, mkdirs, altFile, altCache, altOpens,
                   active, thr, ldr, rsv>>

NextGui ==
    \/ \E s \in Sessions : CbEnter(s)
    \/ \E s \in Sessions : CbFirst(s)
    \/ \E s \in Sessions : CbLoad(s)
    \/ \E s \in Sessions : CbStore(s)
    \/ \E s \in Sessions : CbEmit(s)
    \/ \E s \in Sessions : CbExit(s)

SpecGui == InitGui /\ [][NextGui]_vars

\* ----------------------------------------------------------------- claims
Terminal(sr) == sr.pc \in {"returned", "raised"}
Source(el) == ChosenSource(FirstAttr(el))
HasSource(el) == FirstAttr(el) # <<>>
IsInlineOk(el) == HasSource(el) /\ Source(el).kind = "data" /\ Source(el).valid
IsRemote(el) == HasSource(el) /\ Source(el).kind = "url"
Times(seq, x) == Cardinality({k \in DOMAIN seq : seq[k] = x})
Held(sr) == {i \in DOMAIN sr.path : sr.path[i] # NoPath}

\* C1: within one session no two elements hold the same final target path
\* (the path handed to the fetcher, or the path returned by rename_with_alt).
C1_DistinctTargets ==
    \A s \in active : \A i, j \in Held(sess[s]) :
        i # j => sess[s].path[i] # sess[s].path[j]

\* C2: when a session returns, progress_callback has been invoked exactly
\* once for every discovered element index 1..N.
C2_ProgressOncePerElement ==
    \A s \in active :
        sess[s].pc = "returned" =>
            /\ Len(sess[s].calls) = sess[s].total
            /\ \A i \in 1..sess[s].total : Times(sess[s].calls, i) = 1

\* C3: when a session returns, downloaded + skipped equals the number of
\* discovered elements.
C3_EveryElementCounted ==
    \A s \in active :
        sess[s].pc = "returned" =>
            sess[s].downloaded + sess[s].skipped = sess[s].total

\* C4: an exception raised for one element does not stop the others: every
\* session that discovered elements (and whose progress callback does not
\* raise) returns normally after visiting all of them, each valid inline element is downloaded and reported once, and each
\* remote element is fetched to an end, counted and reported once.
C4_ErrorsIsolated ==
    \A s \in active :
        LET sr == sess[s] IN
        (sr.total > 0 /\ Terminal(sr) /\ ~sr.cb_raises) =>
            /\ sr.pc = "returned"
            /\ sr.idx = sr.total + 1
            /\ \A i \in 1..sr.total :
                  /\ IsInlineOk(sr.elems[i]) =>
                        sr.outcome[i] = "downloaded" /\ Times(sr.calls, i) = 1
                  /\ IsRemote(sr.elems[i]) =>
                        /\ sr.task[i] \in {"done", "failed"}
                        /\ sr.outcome[i] =
                              (IF sr.task[i] = "done" THEN "downloaded"
                               ELSE "skipped")
                        /\ Times(sr.calls, i) = 1

\* C4 witness: a returned session in which an element that raised during
\* resolution is followed by a downloaded one, and a failed fetch sits next
\* to a successful one.
C4_Witness ==
    \E s \in active :
        /\ sess[s].pc = "returned"
        /\ \E i, j, k \in 1..sess[s].total :
              /\ i < j
              /\ sess[s].outcome[i] = "error"
              /\ sess[s].outcome[j] = "downloaded"
              /\ sess[s].outcome[k] = "skipped"

\* C5: when download_images has handed control back (normal return, failed
\* navigation, selector timeout, folder creation error, or an exception out
\* of the pool block), the browser session it opened is closed.
C5_SessionClosed ==
    \A s \in active :
        LET sr == sess[s] IN
        /\ sr.driver = "open" => ~Terminal(sr)
        /\ (Terminal(sr) /\ sr.navigated) => sr.driver = "closed"

\* C5 witness: an exception raised inside the pool block, after a fetch was
\* counted, reached the caller and the browser session is closed.
C5_Witness ==
    \E s \in active :
        /\ sess[s].pc = "raised"
        /\ sess[s].err = "CallbackError"
        /\ sess[s].downloaded > 0
        /\ sess[s].driver = "closed"

InvalidSchemes == {"ftp://", ""}

\* C6: a call whose URL starts with neither http:// nor https:// raises
\* ValueError with no browser session opened, no navigation, and no folder
\* or file created.
C6_InvalidUrlRejected ==
    \A s \in active :
        LET sr == sess[s] IN
        (sr.url.scheme \in InvalidSchemes /\ sr.pc # "idle") =>
            /\ sr.pc = "raised"
            /\ sr.err = "ValueError"
            /\ sr.driver = "none"
            /\ ~sr.navigated
            /\ mkdirs = {}
            /\ DOMAIN disk = {}

\* C6 witness: a call with a relative URL has raised.
C6_Witness ==
    \E s \in active :
        /\ sess[s].url.scheme = ""
        /\ sess[s].pc = "raised"
        /\ sess[s].err = "ValueError"

IsTask(sr, i) == sr.task[i] # "none"
CountedAt(sr) == {k \in DOMAIN sr.calls : sr.outcome[sr.calls[k]] = "downloaded"}
InlineDone(sr) ==
    {i \in 1..sr.total : sr.outcome[i] = "downloaded" /\ ~IsTask(sr, i)}
MinOf(S) == CHOOSE x \in S : \A y \in S : x <= y

\* C7 as stated: first_image is the path of the element whose content was
\* completely written first.
C7_FirstByCompletion ==
    \A s \in active :
        LET sr == sess[s] IN
        (sr.pc = "returned" /\ sr.first_done # 0) =>
            sr.first_image = sr.path[sr.first_done]

\* C7 amended: first_image is the path of the first element the
\* orchestrating thread counted as downloaded: the first valid inline
\* element in discovery order when there is one, otherwise the first
\* successful fetch in the order as_completed yields it; it is None when
\* nothing was downloaded.
C7_FirstByAccounting ==
    \A s \in active :
        LET sr == sess[s] IN
        sr.pc = "returned" =>
            /\ CountedAt(sr) = {} => sr.first_image = NoPath
            /\ CountedAt(sr) # {} =>
                  sr.first_image = sr.path[sr.calls[MinOf(CountedAt(sr))]]
            /\ InlineDone(sr) # {} =>
                  sr.first_image = sr.path[MinOf(InlineDone(sr))]

\* C7 witness: a fetch finished before a later inline element was written,
\* and first_image is the inline element's path.
C7_Witness ==
    \E s \in active :
        LET sr == sess[s] IN
        /\ sr.pc = "returned"
        /\ sr.first_done # 0
        /\ sr.task[sr.first_done] = "done"
        /\ \E j \in InlineDone(sr) :
              /\ j > sr.first_done
              /\ sr.first_image = sr.path[j]
              /\ sr.first_image # sr.path[sr.first_done]

RaceReturned == {t \in DOMAIN thr : thr[t].pc = "returned"}

\* C8: under any interleaving of unique_path calls on one reserved set and
\* folder, no two calls return the same path and every returned path is in
\* the reserved set.
C8_AtomicClaim ==
    /\ \A t, u \in RaceReturned : t # u => thr[t].candidate # thr[u].candidate
    /\ \A t \in RaceReturned : thr[t].candidate \in reserved[0]

\* C9: a running session keeps every reservation it made, whatever another
\* session does, and the paths it allocated are pairwise distinct.
C9_NoCrossTalk ==
    \A s \in active :
        LET sr == sess[s] IN
        sr.pc \in {"enum", "drain"} =>
            /\ \A k \in DOMAIN sr.allocs : sr.allocs[k].path \in reserved[sr.rset]
            /\ \A k, m \in DOMAIN sr.allocs :
                  k # m => sr.allocs[k].path # sr.allocs[m].path

SuffixRange == 0..(2 * MaxElems + 1)
CandK(folder, base, ext, k) ==
    IF k = 0 THEN MkPath(folder, base, ext) ELSE Candidate(folder, base, ext, k)
IsSuffix(folder, e, k) == e.path = CandK(folder, e.base, e.ext, k)
SuffixOf(folder, e) == CHOOSE k \in SuffixRange : IsSuffix(folder, e, k)

\* C10: every allocation of a session returns the candidate name.ext,
\* name_1.ext, name_2.ext, ... with the smallest suffix that is neither on
\* disk nor reserved; allocations of one seed are pairwise distinct and
\* their suffixes increase.
C10_SmallestFreeSuffix ==
    \A s \in active :
        LET sr == sess[s]
            log == sr.allocs
        IN
        /\ \A n \in DOMAIN log :
              \E k \in SuffixRange :
                 /\ IsSuffix(sr.folder, log[n], k)
                 /\ log[n].path \notin log[n].taken
                 /\ \A j \in 0..(k - 1) :
                       CandK(sr.folder, log[n].base, log[n].ext, j)
                          \in log[n].taken
        /\ \A m, n \in DOMAIN log :
              (m < n /\ log[m].base = log[n].base /\ log[m].ext = log[n].ext) =>
                  /\ log[m].path # log[n].path
                  /\ SuffixOf(sr.folder, log[m]) < SuffixOf(sr.folder, log[n])

\* C10 witness: three allocations of the seed a.png in an empty folder gave
\* a.png, a_1.png and a_2.png in that order.
C10_Witness ==
    \E s \in active :
        LET sr == sess[s]
            log == sr.allocs
        IN
        /\ Len(log) >= 3
        /\ \A n \in 1..3 :
              /\ log[n].base = "a"
              /\ log[n].path = CandK(sr.folder, "a", ".png", n - 1)
        /\ log[1].taken = {}

Produced(sr) == {sr.path[i] : i \in {j \in DOMAIN sr.outcome :
                                         sr.outcome[j] = "downloaded"}}
OnDisk(s) == {p \in DOMAIN disk : disk[p][1] = s}

\* C11: when download_images has run, its files were removed and it has run
\* again on the same page and parent directory without renaming, every
\* element has the file name it had in the first run, the downloaded files
\* are on disk under these names, and two runs in which the same fetches
\* succeed leave the same set of file names.
C11_SameNamesOnRepeat ==
    (2 \in active /\ sess[2].pc = "returned") =>
        /\ sess[2].path = sess[1].path
        /\ Produced(sess[2]) \subseteq OnDisk(2)
        /\ sess[2].outcome = sess[1].outcome =>
               Produced(sess[2]) = Produced(sess[1])

\* C11 witness: both runs named two images of one seed a.png and a_1.png and
\* the second run's files are on disk.
C11_Witness ==
    /\ 2 \in active
    /\ sess[2].pc = "returned"
    /\ sess[1].total >= 2
    /\ \A s \in Sessions :
          /\ sess[s].path[1] = MkPath("a/prod", "a", ".png")
          /\ sess[s].path[2] = MkPath("a/prod", "a_1", ".png")
    /\ {sess[2].path[1], sess[2].path[2]} \subseteq OnDisk(2)

AllocPaths(sr) == {sr.allocs[k].path : k \in DOMAIN sr.allocs}
Unreadable(sr) ==
    sr.alt_json_path # "" /\ FileAt(sr.alt_json_path, altFile).state # "ok"

\* C12: in a call that asked for renaming, with an empty alt_json_path the
\* loader and the renamer are never entered (nothing is cached, no file is
\* opened, no element passes through rename_with_alt); with a path where no
\* file or no JSON is, the loaded mapping is empty and the call goes on to
\* navigation; in both cases every element and every file written has the
\* name unique_path gave it and unique_path ran once per resolved element.
C12_NoAltKeepsNames ==
    \A s \in active :
        LET sr == sess[s] IN
        (sr.alt_requested /\ ValidUrl(sr.url) /\ sr.pc # "idle") =>
            /\ sr.alt_json_path = "" =>
                  /\ altCache = <<>>
                  /\ \A p \in AltPaths : altOpens[p] = 0
                  /\ sr.warned = {}
                  /\ \A i \in DOMAIN sr.renamed : sr.renamed[i] = 0
            /\ Unreadable(sr) =>
                  /\ sr.sentences = NoSentences
                  /\ CacheGet(altCache, sr.alt_json_path).data = NoSentences
                  /\ sr.pc = "raised" => sr.navigated
            /\ (sr.alt_json_path = "" \/ Unreadable(sr)) =>
                  /\ \A i \in Held(sr) : sr.path[i] \in AllocPaths(sr)
                  /\ OnDisk(s) \subseteq AllocPaths(sr)
                  /\ Len(sr.allocs) <= sr.total
                  /\ sr.first_image \in AllocPaths(sr) \cup {NoPath}

\* C12 witness: a call that asked for renaming with a file that is not JSON
\* has returned; its inline image went through rename_with_alt and is on
\* disk as image_base64_1.png.
C12_Witness ==
    \E s \in active :
        LET sr == sess[s] IN
        /\ sr.pc = "returned"
        /\ sr.alt_requested
        /\ sr.alt_json_path = AltPath
        /\ altFile = BadFile
        /\ sr.renamed[1] = 1
        /\ sr.path[1] = MkPath(sr.folder, "image_base64_1", ".png")
        /\ Holds(disk, sr.path[1], s, 1)

C14_PopulatedOnce ==
    \A p \in AltPaths :
        /\ altOpens[p] <= 1
        /\ \A t, u \in Returned(p) : ldr[t].map = ldr[u].map

\* C15: every element passes through rename_with_alt at most once, and each
\* time the file at its path holds the whole content of the element; for a
\* remote element this is after its fetch task has finished successfully,
\* and never when the fetch failed.
C15_RenameAfterWrite ==
    \A s \in active :
        LET sr == sess[s] IN
        /\ sr.early = {}
        /\ \A i \in DOMAIN sr.renamed :
              /\ sr.renamed[i] <= 1
              /\ (IsTask(sr, i) /\ sr.renamed[i] = 1) => sr.task[i] = "done"
              /\ sr.task[i] = "failed" => sr.renamed[i] = 0

\* C15 witness: in a returned session a fetched image was renamed once, to
\* be_b.png, and an image whose fetch failed was not renamed.
C15_Witness ==
    \E s \in active :
        LET sr == sess[s] IN
        /\ sr.pc = "returned"
        /\ \E i, j \in DOMAIN sr.renamed :
              /\ sr.task[i] = "done"
              /\ sr.renamed[i] = 1
              /\ sr.path[i] = MkPath(sr.folder, "be_b", ".png")
              /\ Holds(disk, sr.path[i], s, i)
              /\ sr.task[j] = "failed"
              /\ sr.renamed[j] = 0

Texts(e) ==
    IF e.src # <<>> THEN e.src
    ELSE IF e.data_src # <<>> THEN e.data_src ELSE e.data_srcset
Picked(e) == Texts(e)[Len(Texts(e))]
IsInlineText(t) == t[1] = "data:image"

\* C16: handle_image on an inline data:image source returns no URL and a
\* path image_base64_<index>.<ext> (suffixed when taken) that was not on
\* disk and now holds the decoded content, nothing else on disk changing;
\* on a remote source it returns the URL and a newly reserved path and the
\* disk is as before.
C16_InlineWrittenRemoteReserved ==
    (rsv.pc = "done" /\ Texts(rsv.el) # <<>>) =>
        LET t == Picked(rsv.el)
            out == rsv.out
        IN
        /\ t = InlinePng =>
              /\ out.ok
              /\ out.url = NoUrl
              /\ \E k \in 0..2 :
                    out.path = CandK(ResolveFolder,
                                     "image_base64_" \o ToString(rsv.index),
                                     ".png", k)
              /\ out.path \notin DOMAIN rsv.dsk0
              /\ Holds(disk, out.path, 1, rsv.index)
              /\ DOMAIN disk = DOMAIN rsv.dsk0 \cup {out.path}
        /\ ~IsInlineText(t) =>
              /\ out.ok
              /\ out.url # NoUrl
              /\ out.url.kind = "url"
              /\ out.path \in reserved[1] \ rsv.res0
              /\ disk = rsv.dsk0

\* C16 witness: the inline source of element 2 was written to
\* image_base64_2.png, and no URL returned.
C16_Witness ==
    /\ rsv.pc = "done"
    /\ rsv.index = 2
    /\ rsv.el.src = <<InlinePng>>
    /\ rsv.out.url = NoUrl
    /\ rsv.out.path = MkPath(ResolveFolder, "image_base64_2", ".png")
    /\ Holds(disk, rsv.out.path, 1, 2)

\* what handle_image returns when it resolved the candidate text t
Matches(out, t) ==
    IF IsInlineText(t)
    THEN /\ out.ok = (t = InlinePng)
         /\ out.url = NoUrl
         /\ out.path.ext = "." \o t[3]
    ELSE /\ out.ok
         /\ out.url = [ReadSrc(t) EXCEPT !.protoRel = FALSE]

\* C17: handle_image resolves the last candidate of src when src is not
\* empty, else of data-src when that is not empty, else of data-srcset; when
\* all three are absent or empty it raises and neither the reserved set nor
\* the disk has changed.
C17_SourcePriority ==
    rsv.pc = "done" =>
        LET e == rsv.el
            out == rsv.out
        IN
        /\ e.src # <<>> => Matches(out, e.src[Len(e.src)])
        /\ (e.src = <<>> /\ e.data_src # <<>>) =>
              Matches(out, e.data_src[Len(e.data_src)])
        /\ (e.src = <<>> /\ e.data_src = <<>> /\ e.data_srcset # <<>>) =>
              Matches(out, e.data_srcset[Len(e.data_srcset)])
        /\ (e.src = <<>> /\ e.data_src = <<>> /\ e.data_srcset = <<>>) =>
              /\ ~out.ok
              /\ out.path = NoPath
              /\ reserved[1] = rsv.res0
              /\ disk = rsv.dsk0

\* C17 witness: with src empty, data-src test.png and data-srcset
\* photo-800.jpg, the URL of test.png was returned.
C17_Witness ==
    /\ rsv.pc = "done"
    /\ rsv.el = Elem(<<>>, <<TestPng>>, <<PhotoJpg>>)
    /\ rsv.out.ok
    /\ rsv.out.url.stem = "test"

\* the seed and the query expected of each remote text
SeedOf(t) ==
    CASE t = TestPng -> [base |-> "test", ext |-> ".png", query |-> "?x=1"]
      [] t = PhotoJpg -> [base |-> "photo", ext |-> ".jpg", query |-> ""]
      [] t = BigPng -> [base |-> "a-big", ext |-> ".png",
                        query |-> "?v=/b-400.gif"]
      [] t = NoExt -> [base |-> "b-400", ext |-> "", query |-> ""]

\* C18: for a remote source the path returned is the basename of the URL
\* without its query string and without a "-<digits>" group directly before
\* the final extension (photo-800.jpg gives photo.jpg, test.png?x=1 gives
\* test.png, a-big.png and b-400 stay), suffixed when taken, and the URL
\* returned has its query string unchanged.
C18_SeedFromUrl ==
    (rsv.pc = "done" /\ Texts(rsv.el) # <<>> /\ ~IsInlineText(Picked(rsv.el))) =>
        LET exp == SeedOf(Picked(rsv.el))
            out == rsv.out
        IN
        /\ \E k \in 0..3 :
              out.path = CandK(ResolveFolder, exp.base, exp.ext, k)
        /\ (rsv.res0 = {} /\ rsv.dsk0 = <<>>) =>
              out.path = MkPath(ResolveFolder, exp.base, exp.ext)
        /\ out.url.query = exp.query
        /\ ~out.url.protoRel

\* C18 witness: photo-800.jpg was resolved in an empty folder to photo.jpg.
C18_Witness ==
    /\ rsv.pc = "done"
    /\ rsv.el.src = <<PhotoJpg>>
    /\ rsv.dsk0 = <<>>
    /\ rsv.res0 = {}
    /\ rsv.out.path = MkPath(ResolveFolder, "photo", ".jpg")
    /\ rsv.out.url.size = "-800"

Outcomes(sr, o) == {i \in DOMAIN sr.outcome : sr.outcome[i] = o}

C20_NoPendingWork ==
    \A s \in active :
        LET sr == sess[s] IN
        Terminal(sr) =>
            /\ Queued(sr) = {}
            /\ Running(sr) = {}
            /\ \A i \in Submitted(sr) : sr.task[i] \in {"done", "failed"}

\* C20 witness: the progress callback raised after the first completion;
\* the call reached its caller with the exception after the second fetch,
\* never taken from as_completed, had finished too.
C20_Witness ==
    \E s \in active :
        LET sr == sess[s] IN
        /\ sr.pc = "raised"
        /\ sr.err = "CallbackError"
        /\ Cardinality(Submitted(sr)) >= 2
        /\ Submitted(sr) \ sr.yielded # {}
        /\ Submitted(sr) = Finished(sr)

\* C21 as stated: every remote element is reported (callback and counters)
\* in the order in which the fetch tasks completed, also the fetches that
\* completed during enumeration.
C21_CompletionOrder == \A s \in active : ~sess[s].reordered

\* C21 amended: remote elements are reported by the completion loop; the
\* fetches that had finished when the loop began are reported first, in no
\* fixed order, and every other fetch is reported in the order of
\* completion: the element reported is the oldest finished one not yet
\* reported.
C21_LateInCompletionOrder ==
    [][\A s \in active : \A i \in sess'[s].yielded \ sess[s].yielded :
          /\ sess[s].pc = "drain"
          /\ sess[s].task[i] \in {"done", "failed"}
          /\ sess'[s].calls = Append(sess[s].calls, i)
          /\ IF sess[s].nearly > 0
             THEN \E k \in 1..sess[s].nearly : sess[s].doneq[k] = i
             ELSE i = Head(sess[s].doneq)]_vars

\* C21 witness: a returned session reported its fetches in the order they
\* completed, element 2 before element 1.
C21_Witness ==
    \E s \in active :
        LET sr == sess[s] IN
        /\ sr.pc = "returned"
        /\ ~sr.reordered
        /\ sr.nearly = 0
        /\ \E k \in 1..(Len(sr.calls) - 1) :
              /\ sr.calls[k] = 2
              /\ sr.calls[k + 1] = 1
              /\ IsTask(sr, 1)
              /\ IsTask(sr, 2)

InSession(sr) == sr.pc \in {"opened", "enum", "drain", "unwind"}

\* C22: while a session runs, its reserved set only grows: no step removes
\* a path from it, and every path unique_path returned to the session is in
\* it, also the old name of a renamed file and the path of a failed fetch.
C22_ReservedOnlyGrows ==
    [][\A s \in active :
          InSession(sess[s]) =>
              /\ reserved[sess[s].rset] \subseteq reserved'[sess[s].rset]
              /\ \A k \in DOMAIN sess'[s].allocs :
                    sess'[s].allocs[k].path \in reserved'[sess[s].rset]]_vars

\* a step taken by the pool worker that runs the fetch of element i
WorkerStep(s, i) ==
    /\ i \in DOMAIN sess[s].task
    /\ sess[s].task[i] \in {"queued", "running", "open"}
    /\ sess'[s].task[i] # sess[s].task[i]

\* C23: a step of a pool worker changes nothing but the state of its own
\* fetch and the file at the path the element was given at submission: it
\* leaves the reserved set, the counters, first_image, the browser session,
\* the allocations, the renames and the callbacks as they were. These are
\* changed by steps of the orchestrating thread only.
C23_WorkersOnlyFetch ==
    [][\A s \in active : \A i \in 1..MaxElems :
          WorkerStep(s, i) =>
              /\ reserved' = reserved
              /\ sess'[s].downloaded = sess[s].downloaded
              /\ sess'[s].skipped = sess[s].skipped
              /\ sess'[s].first_image = sess[s].first_image
              /\ sess'[s].driver = sess[s].driver
              /\ sess'[s].outcome = sess[s].outcome
              /\ sess'[s].calls = sess[s].calls
              /\ sess'[s].allocs = sess[s].allocs
              /\ sess'[s].renamed = sess[s].renamed
              /\ sess'[s].warned = sess[s].warned
              /\ sess'[s].path = sess[s].path
              /\ \/ disk' = disk
                 \/ disk' = (sess[s].path[i] :> <<s, i>>) @@ disk]_vars

\* C23 witness: a fetch has written its whole file while the orchestrating
\* thread is still enumerating; nothing has been counted
C23_Witness ==
    \E s \in active :
        /\ sess[s].pc = "enum"
        /\ sess[s].downloaded = 0 /\ sess[s].skipped = 0
        /\ sess[s].first_image = NoPath
        /\ \E i \in DOMAIN sess[s].task :
              /\ sess[s].task[i] = "done"
              /\ Holds(disk, sess[s].path[i], s, i)
              /\ sess[s].path[i] \in reserved[sess[s].rset]

\* the first element counted as downloaded by the session
FirstCounted(sr) ==
    LET D == {k \in DOMAIN sr.calls : sr.outcome[sr.calls[k]] = "downloaded"}
    IN IF D = {} THEN 0 ELSE sr.calls[MinOf(D)]

\* C24: a step in which path.rename raises OSError for element i leaves the
\* element with the path it had before the call and the file of the element
\* on disk under that path, counts the element as downloaded, and sets
\* first_image to that path when first_image was unset (and leaves it as it
\* was otherwise).
C24_RenameFailureKeepsFile ==
    [][\A s \in active :
          \A e \in sess'[s].renames \ sess[s].renames :
              e.kind = "oserr" =>
                  /\ sess'[s].path[e.elem] = e.orig
                  /\ Holds(disk', e.orig, s, e.elem)
                  /\ sess'[s].outcome[e.elem] = "downloaded"
                  /\ sess'[s].downloaded = sess[s].downloaded + 1
                  /\ sess'[s].skipped = sess[s].skipped
                  /\ sess'[s].first_image =
                         IF sess[s].first_image = NoPath THEN e.orig
                         ELSE sess[s].first_image]_vars

\* C24 witness: a call has returned in which the rename of the first
\* element counted failed and the rename of another element succeeded; the
\* summary's first_image is the name unique_path gave the first one, and
\* the file is there
C24_Witness ==
    \E s \in active :
        LET sr == sess[s] IN
        /\ sr.pc = "returned"
        /\ \E e, f \in sr.renames :
              /\ e.kind = "oserr" /\ f.kind = "renamed"
              /\ e.elem = FirstCounted(sr)
              /\ sr.result.first_image = e.orig
              /\ e.orig \in AllocPaths(sr)
              /\ Holds(disk, e.orig, s, e.elem)
              /\ sr.path[f.elem] # f.orig

\* C25: in a call whose sentence map has no phrase for the product key
\* (key absent, or mapped to an empty list), the missing-key warning is
\* logged once, at the first file, however many files pass through
\* rename_with_alt; every file leaves rename_with_alt with the path it
\* entered with and rename_with_alt changes no file.
C25_MissingKeyWarnedOnce ==
    \A s \in active :
        LET sr == sess[s] IN
        (sr.pc \in {"enum", "drain", "unwind", "returned", "raised"}
            /\ sr.use_alt
            /\ (ProductName \notin DOMAIN sr.sentences
                   \/ sr.sentences[ProductName] = <<>>)) =>
            /\ sr.warnings = IF sr.renames = {} THEN 0 ELSE 1
            /\ \A e \in sr.renames :
                  /\ sr.path[e.elem] = e.orig
                  /\ e.orig \in AllocPaths(sr)
                  /\ ~e.moved
                  /\ sr.outcome[e.elem] = "downloaded"
            /\ sr.first_image \in AllocPaths(sr) \cup {NoPath}

\* C25 witness: the key maps to an empty list; two files went through
\* rename_with_alt, one warning was logged and both files are on disk under
\* the names unique_path gave them
C25_Witness ==
    \E s \in active :
        LET sr == sess[s] IN
        /\ sr.pc = "returned"
        /\ sr.sentences = (ProductName :> <<>>)
        /\ sr.warnings = 1
        /\ Cardinality({e.elem : e \in sr.renames}) = 2
        /\ \A e \in sr.renames : Holds(disk, e.orig, s, e.elem)

\* C26: an element whose file rename_with_alt has moved to a new name never
\* shares that name with another element whose fetch has not written yet,
\* and the file under that name stays the renamed element's file.
C26_NoRenameOntoReserved ==
    \A s \in active :
        LET sr == sess[s] IN
        \A e \in sr.renames :
            (e.kind = "renamed" /\ sr.path[e.elem] # e.orig) =>
                /\ \A j \in DOMAIN sr.task \ {e.elem} :
                      sr.task[j] \in {"queued", "running"} =>
                          sr.path[j] # sr.path[e.elem]
                /\ Holds(disk, sr.path[e.elem], s, e.elem)

\* C27: at every moment of a session, and so at its end, first_image is
\* None exactly when no element has been counted as downloaded; when set it
\* is the path (after renaming) of the first element counted as downloaded;
\* once set, no later step changes it. The summary returned carries it.
C27_FirstImageStable ==
    [][\A s \in active :
          LET sr == sess'[s] IN
          sr.pc \in {"enum", "drain", "unwind", "returned", "raised"} =>
              /\ (sr.first_image = NoPath) <=> (sr.downloaded = 0)
              /\ (sr.first_image = NoPath) <=>
                     (\A i \in DOMAIN sr.outcome :
                          sr.outcome[i] # "downloaded")
              /\ sr.first_image # NoPath =>
                     /\ FirstCounted(sr) # 0
                     /\ sr.first_image = sr.path[FirstCounted(sr)]
              /\ (sess[s].pc # "idle" /\ sess[s].first_image # NoPath) =>
                     sr.first_image = sess[s].first_image
              /\ sr.pc = "returned" =>
                     sr.result.first_image = sr.first_image]_vars

\* C27 witness: a call has returned with two elements counted as
\* downloaded, the first of them renamed; first_image is the new name of
\* the first, not its name before the rename and not the path of the second
C27_Witness ==
    \E s \in active :
        LET sr == sess[s] IN
        /\ sr.pc = "returned"
        /\ sr.downloaded >= 2
        /\ \E e \in sr.renames :
              /\ e.elem = FirstCounted(sr)
              /\ e.kind = "renamed"
              /\ sr.result.first_image = sr.path[e.elem]
              /\ sr.result.first_image # e.orig
              /\ \E j \in DOMAIN sr.outcome :
                    /\ j # e.elem /\ sr.outcome[j] = "downloaded"
                    /\ sr.path[j] # sr.result.first_image

\* C28: the callbacks of the inline elements come first, by increasing
\* index, and every callback of a remote element comes after them; while the
\* enumeration loop runs no remote element has been taken from
\* as_completed, renamed, counted or reported, and a remote element is
\* reported only when every element has been resolved.
C28_InlineBeforeRemote ==
    \A s \in active :
        LET sr == sess[s] IN
        /\ \A k, l \in DOMAIN sr.calls :
              (k < l /\ ~IsRemote(sr.elems[sr.calls[l]])) =>
                  /\ ~IsRemote(sr.elems[sr.calls[k]])
                  /\ sr.calls[k] < sr.calls[l]
        /\ \A i \in DOMAIN sr.elems :
              (IsRemote(sr.elems[i])
                  /\ \/ sr.outcome[i] # "none"
                     \/ sr.renamed[i] > 0
                     \/ i \in sr.yielded
                     \/ \E k \in DOMAIN sr.calls : sr.calls[k] = i) =>
                  /\ sr.pc # "enum"
                  /\ sr.idx > sr.total
                  /\ \A j \in DOMAIN sr.elems :
                        IsRemote(sr.elems[j]) => sr.task[j] # "none"
                  /\ \A j \in DOMAIN sr.elems :
                        IsInlineOk(sr.elems[j]) =>
                            \E k \in DOMAIN sr.calls : sr.calls[k] = j

\* C28 witness: the fetch of element 1 had written its file before the
\* inline element 2 was decoded, and the callbacks came as 2, 1
C28_Witness ==
    \E s \in active :
        LET sr == sess[s] IN
        /\ sr.pc = "returned"
        /\ sr.total = 2
        /\ IsRemote(sr.elems[1]) /\ IsInlineOk(sr.elems[2])
        /\ sr.first_done = 1
        /\ sr.calls = <<2, 1>>
        /\ sr.outcome = <<"downloaded", "downloaded">>

\* the callbacks among the first k emissions
EmittedBy(k) == {gui.emitted[j].who : j \in 2..k}

\* the element counts of the sessions of S, added up
RECURSIVE CountOf(_)
CountOf(S) ==
    IF S = {} THEN 0
    ELSE LET s == CHOOSE x \in S : TRUE
         IN gui.cb[s].t + CountOf(S \ {s})

\* C29: the pairs emitted by the images worker start with (0, 0); in every
\* pair done <= total; done grows by exactly one from each pair to the
\* next; total is the sum of the element counts of the sessions whose
\* callback has been called so far, so each count is added exactly once,
\* at the session's first callback.
C29_ProgressPairs ==
    \A k \in DOMAIN gui.emitted :
        LET e == gui.emitted[k] IN
        /\ e.done <= e.total
        /\ e.done = k - 1
        /\ e.total = CountOf(EmittedBy(k))

\* C29 witness: two sessions of two elements each, callbacks interleaved;
\* the second session's count was added after the first session had
\* already emitted, and the last pair is (4, 4)
C29_Witness ==
    /\ Len(gui.emitted) = 5
    /\ gui.emitted[2].who # gui.emitted[3].who
    /\ gui.emitted[3].who # gui.emitted[4].who
    /\ gui.emitted[2] = Emission(1, 2, gui.emitted[2].who)
    /\ gui.emitted[5] = Emission(4, 4, gui.emitted[5].who)

\* the first call of load_alt_sentences made for path p
FirstCall(p) == {t \in Returned(p) : \A u \in Returned(p) : ldr[t].seq <= ldr[u].seq}

\* C30: when the first call for a path finds no file or no JSON there, the
\* empty mapping is cached; every later call for the path returns the empty
\* mapping and opens nothing, whatever the file holds by then.
C30_FailedLoadCached ==
    \A p \in AltPaths : \A t \in FirstCall(p) :
        ldr[t].saw \in {"missing", "malformed"} =>
            /\ p \in DOMAIN altCache
            /\ altCache[p].data = NoSentences
            /\ altOpens[p] = 1
            /\ \A u \in Returned(p) :
                  /\ ldr[u].map.data = NoSentences
                  /\ u # t => ~ldr[u].opened

\* C30 witness: the first call found no file; the file was then written
\* with a valid mapping; a later call, made while the valid file was there,
\* returned the empty mapping without opening it
C30_Witness ==
    \E t \in FirstCall(AltPath) : \E u \in Returned(AltPath) :
        /\ ldr[t].saw = "missing"
        /\ ldr[u].seq > ldr[t].seq
        /\ ldr[u].saw = "ok"
        /\ altFile = GoodFile
        /\ ldr[u].map.data = NoSentences
        /\ ~ldr[u].opened
        /\ altOpens[AltPath] = 1

TypeOK == \A s \in active : sess[s].pc \in
    {"idle", "opened", "enum", "drain", "unwind", "returned", "raised"}

====
